---------------------------- MODULE Spec2Model ----------------------------
(***************************************************************************)
(* BitgetFutures (code/utilities/bitget_futures_demo.py): a wrapper around *)
(* a ccxt.bitget session.  The model records, for one call of one method   *)
(* at a time, the calls the method issues to the session (the log a mock   *)
(* session would keep), and how the method ends: with a value or with an   *)
(* error.  The session is the environment: each of its calls either        *)
(* returns or raises, and what a network call returns is the environment's *)
(* choice.                                                                 *)
(*                                                                         *)
(* Python integers are unbounded; a millisecond timestamp (about 1.7e12)   *)
(* does not fit a 32-bit integer, so an int is held as two limbs,          *)
(* hi * Base + lo with 0 <= lo < Base.  Base is a power of ten, which makes*)
(* str() the concatenation of the limbs' decimal digits.                   *)
(***************************************************************************)
EXTENDS Integers, Sequences, FiniteSets, TLC

VARIABLES
    api_setup,    \* the argument __init__ was called with
    session,      \* self.session: the configuration ccxt.bitget was given
    markets,      \* self.markets: what load_markets() returned
    pc,           \* "ready" | "fetch_recent_ohlcv" (inside the loop) | "done"
    op,           \* the method being called and its arguments
    calls,        \* the session calls the method has issued so far, in order
    outcome,      \* how the method ended: [kind, value, error]
    frame         \* locals of fetch_recent_ohlcv while it runs

vars == <<api_setup, session, markets, pc, op, calls, outcome, frame>>

-----------------------------------------------------------------------------
(* Bounds of the model. *)

MaxLimit == 500        \* largest candle count asked of fetch_recent_ohlcv
MaxNegLimit == 2       \* the counts range over -MaxNegLimit .. MaxLimit
MaxPositions == 3      \* longest list fetch_positions returns
MaxLeverage == 2       \* leverages 1 .. MaxLeverage
MaxCalls == 5          \* positions at which a session call may be made to raise

-----------------------------------------------------------------------------
(* Python values. *)

None == [py |-> "None"]

Base == 1000000

Norm(h, l) == [hi |-> h + (l \div Base), lo |-> l % Base]

IntOf(n) == Norm(0, n)

Add(a, b) == Norm(a.hi + b.hi, a.lo + b.lo)

Sub(a, b) == Norm(a.hi - b.hi, a.lo - b.lo)

\* k * a for a machine-sized k
Mul(k, a) == Norm(k * a.hi, k * a.lo)

Less(a, b) == a.hi < b.hi \/ (a.hi = b.hi /\ a.lo < b.lo)

LessEq(a, b) == a = b \/ Less(a, b)

Min(a, b) == IF Less(b, a) THEN b ELSE a

DigitChar(d) == <<"0", "1", "2", "3", "4", "5", "6", "7", "8", "9">>[d + 1]

RECURSIVE Digits(_)
Digits(n) == IF n < 10 THEN <<DigitChar(n)>>
             ELSE Append(Digits(n \div 10), DigitChar(n % 10))

RECURSIVE ZeroPad(_, _)
ZeroPad(s, w) == IF Len(s) >= w THEN s ELSE ZeroPad(<<"0">> \o s, w)

\* str(a) for a >= 0
StrNat(a) == IF a.hi = 0 THEN Digits(a.lo)
             ELSE Digits(a.hi) \o ZeroPad(Digits(a.lo), 6)

\* str(a): a string is the sequence of its characters
Str(a) == IF a.hi < 0 THEN <<"-">> \o StrNat(Sub(IntOf(0), a)) ELSE StrNat(a)

Get(d, k, default) == IF k \in DOMAIN d THEN d[k] ELSE default

-----------------------------------------------------------------------------
(* The session: ccxt.bitget. *)

\* what a session call may raise (all are subclasses of Exception)
Errors == {"NetworkError", "ExchangeError"}

MarketSymbols == {"BTC/USDT:USDT", "ETH/USDT:USDT"}

\* the symbols a caller passes: the listed ones and one the exchange lacks
Symbols == MarketSymbols \cup {"XXX/USDT:USDT"}

\* load_markets(): amounts and prices are counted in thousandths
LoadedMarkets ==
    [s \in MarketSymbols |->
        IF s = "BTC/USDT:USDT"
        THEN [id |-> "BTCUSDT", info |-> [productType |-> "USDT-FUTURES"],
              limits |-> [amount |-> [min |-> 1]],
              precision |-> [amount |-> 1, price |-> 100]]
        ELSE [id |-> "ETHUSDT", info |-> [symbol |-> "ETHUSDT"],
              limits |-> [amount |-> [min |-> 10]],
              precision |-> [amount |-> 10, price |-> 10]]]

NoMarket == [id |-> "", info |-> [symbol |-> ""],
             limits |-> [amount |-> [min |-> 0]],
             precision |-> [amount |-> 1, price |-> 1]]

\* session.market(symbol), which raises BadSymbol for an unlisted symbol
Market(symbol) == IF symbol \in DOMAIN markets THEN markets[symbol] ELSE NoMarket

\* a number of thousandths as a decimal string
DecimalStr(m) == Digits(m \div 1000) \o <<".">> \o ZeroPad(Digits(m % 1000), 3)

\* session.amount_to_precision: truncates to the market's amount step
AmountToPrecision(symbol, amount) ==
    LET step == Market(symbol).precision.amount
    IN  DecimalStr((amount \div step) * step)

\* session.price_to_precision: rounds to the market's price step
PriceToPrecision(symbol, price) ==
    LET step == Market(symbol).precision.price
    IN  DecimalStr(((price + step \div 2) \div step) * step)

\* one session call: the function, its positional and keyword arguments, and
\* what it returns when it does not raise
Call(fn, args, kw, ret) ==
    [fn |-> fn, args |-> args, kw |-> kw, ret |-> ret, raised |-> "none"]

NoKw == <<>>

\* The environment's decision for one run of a method: the position of the
\* session call that raises (0, or a position never reached: none does) and
\* the error it raises.
Failures == [at : 0 .. MaxCalls, err : Errors]

\* session.market raises BadSymbol for a symbol that is not listed
BadSymbolAt(plan, i) ==
    plan[i].fn = "market" /\ plan[i].args[1] \notin DOMAIN markets

\* Run the calls of plan in order until one raises.  The result is the log of
\* the calls issued and how the sequence ended.
Run(plan, f) ==
    LET failing == {i \in 1 .. Len(plan) : i = f.at \/ BadSymbolAt(plan, i)}
        stop    == IF failing = {} THEN 0
                   ELSE CHOOSE i \in failing : \A j \in failing : i <= j
        n       == IF stop = 0 THEN Len(plan) ELSE stop
        err     == IF stop = 0 THEN "none"
                   ELSE IF BadSymbolAt(plan, stop) THEN "BadSymbol" ELSE f.err
        log     == [i \in 1 .. n |->
                      IF i = stop
                      THEN [plan[i] EXCEPT !.raised = err, !.ret = None]
                      ELSE plan[i]]
    IN  IF stop = 0
        THEN [calls |-> log, kind |-> "returned", error |-> "none",
              value |-> IF n = 0 THEN None ELSE plan[n].ret]
        ELSE [calls |-> log, kind |-> "raised", error |-> err, value |-> None]

\* a method without a return statement returns None
ReturnsNone(r) == IF r.kind = "returned" THEN [r EXCEPT !.value = None] ELSE r

\* try: ... except Exception as e: print(e); return None
TryExcept(r) ==
    IF r.kind = "raised"
    THEN [r EXCEPT !.kind = "returned", !.error = "none", !.value = None]
    ELSE r

-----------------------------------------------------------------------------
(* Arguments and responses. *)

Sides == {"buy", "sell"}

HoldSides == {"long", "short"}

Amounts == {5, 1234}

Prices == {30049, 30050}

OrderIds == {"1001"}

MarginModes == {"isolated", "cross", "crossed"}

Leverages == 1 .. MaxLeverage

\* what a network call of the session returns: the environment's choice
Responses == {[py |-> "dict", id |-> "r1"], [py |-> "dict", id |-> "r2"]}

\* a position as fetch_positions reports it; contracts may be missing
Positions ==
    {[side |-> "long"]}
      \cup [side : HoldSides, contracts : {-1, 0, 1}]

RECURSIVE SeqsUpTo(_, _)
SeqsUpTo(S, n) ==
    IF n = 0 THEN {<<>>}
    ELSE LET shorter == SeqsUpTo(S, n - 1)
         IN  shorter \cup {Append(q, x) : q \in {t \in shorter : Len(t) = n - 1}, x \in S}

PositionLists == SeqsUpTo(Positions, MaxPositions)

-----------------------------------------------------------------------------
(* __init__ *)

\* the api_setup arguments tried: None, and credentials with
\* a further key naming the environment wanted
ApiSetups ==
    {None,
     [apiKey |-> "key", secret |-> "sec", password |-> "pass",
      environment |-> "production"],
     [apiKey |-> "key", secret |-> "sec", password |-> "pass",
      environment |-> "paper"]}

\* the configuration handed to ccxt.bitget
SessionConfigByEnvironment(setup) ==
    LET given == IF setup = None THEN <<>> ELSE setup
    IN  [apiKey          |-> Get(given, "apiKey", "None"),
         secret          |-> Get(given, "secret", "None"),
         password        |-> Get(given, "password", "None"),
         enableRateLimit |-> TRUE,
         options         |-> IF Get(given, "environment", "paper") = "production"
                             THEN [defaultType |-> "swap", headers |-> <<>>]
                             ELSE [defaultType |-> "swap",
                                   headers     |-> [PAPTRADING |-> "1"]]]

SessionConfig(setup) ==
    LET given == IF setup = None THEN <<>> ELSE setup
    IN  [apiKey          |-> Get(given, "apiKey", "None"),
         secret          |-> Get(given, "secret", "None"),
         password        |-> Get(given, "password", "None"),
         enableRateLimit |-> TRUE,
         options         |-> [defaultType |-> "swap",
                              headers     |-> [PAPTRADING |-> "1"]]]

-----------------------------------------------------------------------------
(* The forwarding methods.  Each takes its arguments, the response resp the *)
(* session gives to the network call, and the environment's failure f.      *)

fetch_ticker(symbol, resp, f) ==
    Run(<<Call("fetch_ticker", <<symbol>>, NoKw, resp)>>, f)

\* self.markets[symbol]['limits']['amount']['min']: no session call
fetch_min_amount_tradable(symbol) ==
    IF symbol \in DOMAIN markets
    THEN [calls |-> <<>>, kind |-> "returned", error |-> "none",
          value |-> [py |-> "float", v |-> markets[symbol].limits.amount.min]]
    ELSE [calls |-> <<>>, kind |-> "raised", error |-> "KeyError", value |-> None]

amount_to_precision(symbol, amount, f) ==
    Run(<<Call("amount_to_precision", <<symbol, amount>>, NoKw,
               AmountToPrecision(symbol, amount))>>, f)

price_to_precision(symbol, price, f) ==
    Run(<<Call("price_to_precision", <<symbol, price>>, NoKw,
               PriceToPrecision(symbol, price))>>, f)

\* params or {}
fetch_balance(params, resp, f) ==
    LET p == IF params = None \/ params = <<>> THEN <<>> ELSE params
    IN  Run(<<Call("fetch_balance", <<p>>, NoKw, resp)>>, f)

fetch_order(id, symbol, resp, f) ==
    LET market == Market(symbol)
    IN  Run(<<Call("market", <<symbol>>, NoKw, market),
              Call("fetch_order", <<id, market.id>>, NoKw, resp)>>, f)

fetch_open_orders(symbol, resp, f) ==
    LET market       == Market(symbol)
        product_type == Get(market.info, "productType", "umcbl")
    IN  Run(<<Call("market", <<symbol>>, NoKw, market),
              Call("private_mix_get_v2_mix_order_orders_pending",
                   <<[symbol |-> market.id, productType |-> product_type]>>,
                   NoKw, resp)>>, f)

fetch_open_trigger_orders(symbol, resp, f) ==
    LET market == Market(symbol)
    IN  Run(<<Call("market", <<symbol>>, NoKw, market),
              Call("fetch_open_orders", <<market.id>>,
                   [params |-> [stop |-> TRUE]], resp)>>, f)

fetch_closed_trigger_orders(symbol, resp, f) ==
    LET market == Market(symbol)
    IN  Run(<<Call("market", <<symbol>>, NoKw, market),
              Call("fetch_closed_orders", <<market.id>>,
                   [params |-> [stop |-> TRUE]], resp)>>, f)

cancel_order(id, symbol, resp, f) ==
    LET market == Market(symbol)
    IN  Run(<<Call("market", <<symbol>>, NoKw, market),
              Call("cancel_order", <<id, market.id>>, NoKw, resp)>>, f)

cancel_trigger_order(id, symbol, resp, f) ==
    LET market == Market(symbol)
    IN  Run(<<Call("market", <<symbol>>, NoKw, market),
              Call("cancel_order", <<id, market.id>>,
                   [params |-> [stop |-> TRUE]], resp)>>, f)

HasContractsNonNegative(pos) == Get(pos, "contracts", 0) >= 0

\* pos.get('contracts', 0) > 0; the contracts of a position is a number, of
\* which float() is the value
HasContracts(pos) == Get(pos, "contracts", 0) > 0

RECURSIVE OpenOf(_)
OpenOf(positions) ==
    IF positions = <<>> THEN <<>>
    ELSE IF HasContracts(Head(positions))
         THEN <<Head(positions)>> \o OpenOf(Tail(positions))
         ELSE OpenOf(Tail(positions))

\* positions: the list session.fetch_positions returns
fetch_open_positions(symbol, positions, f) ==
    LET market == Market(symbol)
        r == Run(<<Call("market", <<symbol>>, NoKw, market),
                   Call("fetch_positions", <<<<market.id>>>>, NoKw, positions)>>, f)
    IN  IF r.kind = "returned" THEN [r EXCEPT !.value = OpenOf(positions)] ELSE r

flash_close_position(symbol, side, resp, f) ==
    LET market == Market(symbol)
    IN  Run(<<Call("market", <<symbol>>, NoKw, market),
              Call("close_position", <<market.id>>, [side |-> side], resp)>>, f)

set_margin_mode(symbol, margin_mode, resp, f) ==
    LET market == Market(symbol)
    IN  ReturnsNone(
          Run(<<Call("market", <<symbol>>, NoKw, market),
                Call("set_margin_mode", <<margin_mode, market.id>>, NoKw, resp)>>, f))

set_leverage_one_call(symbol, margin_mode, leverage, resp, f) ==
    LET market == Market(symbol)
    IN  ReturnsNone(
          Run(<<Call("market", <<symbol>>, NoKw, market),
                Call("set_leverage", <<leverage, market.id>>, NoKw, resp)>>, f))

set_leverage(symbol, margin_mode, leverage, resp, f) ==
    LET market == Market(symbol)
        sides  == <<"long", "short">>
    IN  ReturnsNone(
          IF margin_mode = "isolated"
          THEN Run(<<Call("market", <<symbol>>, NoKw, market)>>
                     \o [i \in 1 .. Len(sides) |->
                           Call("set_leverage", <<leverage, market.id>>,
                                [params |-> [holdSide |-> sides[i]]], resp)], f)
          ELSE Run(<<Call("market", <<symbol>>, NoKw, market),
                     Call("set_leverage", <<leverage, market.id>>, NoKw, resp)>>, f))

place_market_order_swallowing(symbol, side, amount, reduce, resp, f) ==
    LET market == Market(symbol)
        params == [reduceOnly |-> reduce]
        amt    == AmountToPrecision(symbol, amount)
    IN  TryExcept(
          Run(<<Call("market", <<symbol>>, NoKw, market),
                Call("amount_to_precision", <<symbol, amount>>, NoKw, amt),
                Call("create_order", <<market.id, "market", side, amt>>,
                     [params |-> params], resp)>>, f))

place_market_order(symbol, side, amount, reduce, resp, f) ==
    LET market == Market(symbol)
        params == [reduceOnly |-> reduce]
        amt    == AmountToPrecision(symbol, amount)
    IN  Run(<<Call("market", <<symbol>>, NoKw, market),
              Call("amount_to_precision", <<symbol, amount>>, NoKw, amt),
              Call("create_order", <<market.id, "market", side, amt>>,
                   [params |-> params], resp)>>, f)

place_limit_order(symbol, side, amount, price, reduce, resp, f) ==
    LET market == Market(symbol)
        params == [reduceOnly |-> reduce]
        amt    == AmountToPrecision(symbol, amount)
        prc    == PriceToPrecision(symbol, price)
    IN  Run(<<Call("market", <<symbol>>, NoKw, market),
              Call("amount_to_precision", <<symbol, amount>>, NoKw, amt),
              Call("price_to_precision", <<symbol, price>>, NoKw, prc),
              Call("create_order", <<market.id, "limit", side, amt, prc>>,
                   [params |-> params], resp)>>, f)

place_trigger_market_order_unguarded(symbol, side, amount, trigger_price, reduce, resp, f) ==
    LET market == Market(symbol)
        amt    == AmountToPrecision(symbol, amount)
        trg    == PriceToPrecision(symbol, trigger_price)
        params == [reduceOnly |-> reduce, triggerPrice |-> trg]
    IN  Run(<<Call("market", <<symbol>>, NoKw, market),
              Call("amount_to_precision", <<symbol, amount>>, NoKw, amt),
              Call("price_to_precision", <<symbol, trigger_price>>, NoKw, trg),
              Call("create_order", <<market.id, "market", side, amt>>,
                   [params |-> params], resp)>>, f)

place_trigger_market_order(symbol, side, amount, trigger_price, reduce, resp, f) ==
    LET market == Market(symbol)
        amt    == AmountToPrecision(symbol, amount)
        trg    == PriceToPrecision(symbol, trigger_price)
        params == [reduceOnly |-> reduce, triggerPrice |-> trg]
    IN  TryExcept(
          Run(<<Call("market", <<symbol>>, NoKw, market),
                Call("amount_to_precision", <<symbol, amount>>, NoKw, amt),
                Call("price_to_precision", <<symbol, trigger_price>>, NoKw, trg),
                Call("create_order", <<market.id, "market", side, amt>>,
                     [params |-> params], resp)>>, f))

place_trigger_limit_order(symbol, side, amount, trigger_price, price, reduce, resp, f) ==
    LET market == Market(symbol)
        amt    == AmountToPrecision(symbol, amount)
        trg    == PriceToPrecision(symbol, trigger_price)
        prc    == PriceToPrecision(symbol, price)
        params == [reduceOnly |-> reduce, triggerPrice |-> trg]
    IN  TryExcept(
          Run(<<Call("market", <<symbol>>, NoKw, market),
                Call("amount_to_precision", <<symbol, amount>>, NoKw, amt),
                Call("price_to_precision", <<symbol, trigger_price>>, NoKw, trg),
                Call("price_to_precision", <<symbol, price>>, NoKw, prc),
                Call("create_order", <<market.id, "limit", side, amt, prc>>,
                     [params |-> params], resp)>>, f))

-----------------------------------------------------------------------------
(* fetch_recent_ohlcv *)

bitget_fetch_limit == 200

ms_map ==
    "1m" :> 60000 @@ "5m" :> 300000 @@ "15m" :> 900000 @@ "30m" :> 1800000 @@
    "1h" :> 3600000 @@ "2h" :> 7200000 @@ "4h" :> 14400000 @@ "1d" :> 86400000

\* the timeframes a caller passes: the keys of ms_map and one that is none
Timeframes == DOMAIN ms_map \cup {"3m"}

Limits == (0 - MaxNegLimit) .. MaxLimit

OhlcvSymbols == {"BTC/USDT:USDT"}

\* int(time.time() * 1000): two instants of November 2025
Nows == {[hi |-> 1762214, lo |-> 400000], [hi |-> 1762214, lo |-> 999999]}

ms_map_get(timeframe) ==
    IF timeframe \in DOMAIN ms_map
    THEN [raised |-> "none", ms |-> IntOf(ms_map[timeframe])]
    ELSE [raised |-> "none", ms |-> IntOf(60000)]

\* ms_map[timeframe]: a KeyError for a key the dict lacks
ms_map_item(timeframe) ==
    IF timeframe \in DOMAIN ms_map
    THEN [raised |-> "none", ms |-> IntOf(ms_map[timeframe])]
    ELSE [raised |-> "KeyError", ms |-> IntOf(0)]

start_ts_unscaled(end_ts, limit, ms) == Sub(end_ts, IntOf(limit))

\* end_ts - (limit * ms_map[timeframe])
start_ts_of(end_ts, limit, ms) == Sub(end_ts, Mul(limit, ms))

while_inclusive(current_ts, end_ts) == LessEq(current_ts, end_ts)

\* while current_ts < end_ts
while_condition(current_ts, end_ts) == Less(current_ts, end_ts)

req_end_unclamped(current_ts, ms, end_ts) ==
    Add(current_ts, Mul(bitget_fetch_limit, ms))

\* min(current_ts + bitget_fetch_limit * ms_map[timeframe], end_ts)
req_end_of(current_ts, ms, end_ts) ==
    Min(Add(current_ts, Mul(bitget_fetch_limit, ms)), end_ts)

next_current_ts_no_gap(current_ts, ms) ==
    Add(current_ts, Mul(bitget_fetch_limit, ms))

\* current_ts += bitget_fetch_limit * ms_map[timeframe] + 1
next_current_ts(current_ts, ms) ==
    Add(current_ts, Add(Mul(bitget_fetch_limit, ms), IntOf(1)))

\* a row of fetch_ohlcv; open, high, low, close and volume are left out
Candle(ts) == [timestamp |-> ts]

\* what fetch_ohlcv returns for a window, the environment's choice: nothing,
\* or the two boundary candles, newest first
Fetched(current_ts, req_end) == {<<>>, <<Candle(req_end), Candle(current_ts)>>}

\* pd.to_datetime(timestamp, unit='ms')
to_datetime(ts) == [datetime64 |-> ts]

RECURSIVE Insert(_, _)
Insert(sorted, d) ==
    IF sorted = <<>> THEN <<d>>
    ELSE IF Less(d.datetime64, Head(sorted).datetime64)
         THEN <<d>> \o sorted
         ELSE <<Head(sorted)>> \o Insert(Tail(sorted), d)

RECURSIVE sort_index(_)
sort_index(index) ==
    IF index = <<>> THEN <<>>
    ELSE Insert(sort_index(SubSeq(index, 1, Len(index) - 1)), index[Len(index)])

\* the DataFrame returned: its index, sorted
DataFrame(ohlcv_data) ==
    [py    |-> "DataFrame",
     index |-> sort_index([i \in 1 .. Len(ohlcv_data) |->
                              to_datetime(ohlcv_data[i].timestamp)])]

-----------------------------------------------------------------------------
(* The state machine. *)

NoOp == [name |-> "none"]

NoOutcome == [kind |-> "none", value |-> None, error |-> "none"]

NoFrame == [end_ts |-> IntOf(0), start_ts |-> IntOf(0), current_ts |-> IntOf(0),
            ms |-> IntOf(0), ohlcv_data |-> <<>>]

Init ==
    /\ api_setup \in ApiSetups
    /\ session = SessionConfig(api_setup)
    /\ markets = LoadedMarkets
    /\ pc = "ready"
    /\ op = NoOp
    /\ calls = <<>>
    /\ outcome = NoOutcome
    /\ frame = NoFrame

\* a forwarding method runs to its end: o is the call, r what Run made of it
Finish(o, r) ==
    /\ pc' = "done"
    /\ op' = o
    /\ calls' = r.calls
    /\ outcome' = [kind |-> r.kind, value |-> r.value, error |-> r.error]
    /\ UNCHANGED <<api_setup, session, markets, frame>>

call_fetch_ticker ==
    /\ pc = "ready"
    /\ \E symbol \in Symbols, resp \in Responses, f \in Failures :
          Finish([name |-> "fetch_ticker", symbol |-> symbol],
                 fetch_ticker(symbol, resp, f))

call_fetch_min_amount_tradable ==
    /\ pc = "ready"
    /\ \E symbol \in Symbols :
          Finish([name |-> "fetch_min_amount_tradable", symbol |-> symbol],
                 fetch_min_amount_tradable(symbol))

call_amount_to_precision ==
    /\ pc = "ready"
    /\ \E symbol \in MarketSymbols, amount \in Amounts, f \in Failures :
          Finish([name |-> "amount_to_precision", symbol |-> symbol, amount |-> amount],
                 amount_to_precision(symbol, amount, f))

call_price_to_precision ==
    /\ pc = "ready"
    /\ \E symbol \in MarketSymbols, price \in Prices, f \in Failures :
          Finish([name |-> "price_to_precision", symbol |-> symbol, price |-> price],
                 price_to_precision(symbol, price, f))

call_fetch_balance ==
    /\ pc = "ready"
    /\ \E params \in {None, <<>>, [productType |-> "USDT-FUTURES"]},
          resp \in Responses, f \in Failures :
          Finish([name |-> "fetch_balance", params |-> params],
                 fetch_balance(params, resp, f))

call_fetch_order ==
    /\ pc = "ready"
    /\ \E id \in OrderIds, symbol \in Symbols, resp \in Responses, f \in Failures :
          Finish([name |-> "fetch_order", id |-> id, symbol |-> symbol],
                 fetch_order(id, symbol, resp, f))

call_fetch_open_orders ==
    /\ pc = "ready"
    /\ \E symbol \in Symbols, resp \in Responses, f \in Failures :
          Finish([name |-> "fetch_open_orders", symbol |-> symbol],
                 fetch_open_orders(symbol, resp, f))

call_fetch_open_trigger_orders ==
    /\ pc = "ready"
    /\ \E symbol \in Symbols, resp \in Responses, f \in Failures :
          Finish([name |-> "fetch_open_trigger_orders", symbol |-> symbol],
                 fetch_open_trigger_orders(symbol, resp, f))

call_fetch_closed_trigger_orders ==
    /\ pc = "ready"
    /\ \E symbol \in Symbols, resp \in Responses, f \in Failures :
          Finish([name |-> "fetch_closed_trigger_orders", symbol |-> symbol],
                 fetch_closed_trigger_orders(symbol, resp, f))

call_cancel_order ==
    /\ pc = "ready"
    /\ \E id \in OrderIds, symbol \in Symbols, resp \in Responses, f \in Failures :
          Finish([name |-> "cancel_order", id |-> id, symbol |-> symbol],
                 cancel_order(id, symbol, resp, f))

call_cancel_trigger_order ==
    /\ pc = "ready"
    /\ \E id \in OrderIds, symbol \in Symbols, resp \in Responses, f \in Failures :
          Finish([name |-> "cancel_trigger_order", id |-> id, symbol |-> symbol],
                 cancel_trigger_order(id, symbol, resp, f))

call_fetch_open_positions ==
    /\ pc = "ready"
    /\ \E symbol \in Symbols, positions \in PositionLists, f \in Failures :
          Finish([name |-> "fetch_open_positions", symbol |-> symbol],
                 fetch_open_positions(symbol, positions, f))

call_flash_close_position ==
    /\ pc = "ready"
    /\ \E symbol \in Symbols, side \in HoldSides \cup {"None"},
          resp \in Responses, f \in Failures :
          Finish([name |-> "flash_close_position", symbol |-> symbol, side |-> side],
                 flash_close_position(symbol, side, resp, f))

call_set_margin_mode ==
    /\ pc = "ready"
    /\ \E symbol \in Symbols, margin_mode \in MarginModes,
          resp \in Responses, f \in Failures :
          Finish([name |-> "set_margin_mode", symbol |-> symbol,
                  margin_mode |-> margin_mode],
                 set_margin_mode(symbol, margin_mode, resp, f))

call_set_leverage ==
    /\ pc = "ready"
    /\ \E symbol \in Symbols, margin_mode \in MarginModes, leverage \in Leverages,
          resp \in Responses, f \in Failures :
          Finish([name |-> "set_leverage", symbol |-> symbol,
                  margin_mode |-> margin_mode, leverage |-> leverage],
                 set_leverage(symbol, margin_mode, leverage, resp, f))

call_place_market_order ==
    /\ pc = "ready"
    /\ \E symbol \in Symbols, side \in Sides, amount \in Amounts, reduce \in BOOLEAN,
          resp \in Responses, f \in Failures :
          Finish([name |-> "place_market_order", symbol |-> symbol, side |-> side,
                  amount |-> amount, reduce |-> reduce],
                 place_market_order(symbol, side, amount, reduce, resp, f))

call_place_limit_order ==
    /\ pc = "ready"
    /\ \E symbol \in Symbols, side \in Sides, amount \in Amounts, price \in Prices,
          reduce \in BOOLEAN, resp \in Responses, f \in Failures :
          Finish([name |-> "place_limit_order", symbol |-> symbol, side |-> side,
                  amount |-> amount, price |-> price, reduce |-> reduce],
                 place_limit_order(symbol, side, amount, price, reduce, resp, f))

call_place_trigger_market_order ==
    /\ pc = "ready"
    /\ \E symbol \in Symbols, side \in Sides, amount \in Amounts,
          trigger_price \in Prices, reduce \in BOOLEAN,
          resp \in Responses, f \in Failures :
          Finish([name |-> "place_trigger_market_order", symbol |-> symbol,
                  side |-> side, amount |-> amount,
                  trigger_price |-> trigger_price, reduce |-> reduce],
                 place_trigger_market_order(symbol, side, amount, trigger_price,
                                            reduce, resp, f))

call_place_trigger_limit_order ==
    /\ pc = "ready"
    /\ \E symbol \in Symbols, side \in Sides, amount \in Amounts,
          trigger_price \in Prices, price \in Prices, reduce \in BOOLEAN,
          resp \in Responses, f \in Failures :
          Finish([name |-> "place_trigger_limit_order", symbol |-> symbol,
                  side |-> side, amount |-> amount,
                  trigger_price |-> trigger_price, price |-> price,
                  reduce |-> reduce],
                 place_trigger_limit_order(symbol, side, amount, trigger_price,
                                           price, reduce, resp, f))

\* lines 98-107: up to the loop
fetch_recent_ohlcv_enter ==
    /\ pc = "ready"
    /\ \E symbol \in OhlcvSymbols, timeframe \in Timeframes, limit \in Limits,
          now \in Nows :
          LET m == ms_map_item(timeframe)
              start_ts == start_ts_of(now, limit, m.ms)
          IN  /\ op' = [name |-> "fetch_recent_ohlcv", symbol |-> symbol,
                        timeframe |-> timeframe, limit |-> limit]
              /\ calls' = <<>>
              /\ IF m.raised # "none"
                 THEN /\ pc' = "done"
                      /\ outcome' = [kind |-> "raised", value |-> None,
                                     error |-> m.raised]
                      /\ frame' = [NoFrame EXCEPT !.end_ts = now]
                 ELSE /\ pc' = "fetch_recent_ohlcv"
                      /\ outcome' = NoOutcome
                      /\ frame' = [end_ts |-> now, start_ts |-> start_ts,
                                   current_ts |-> start_ts, ms |-> m.ms,
                                   ohlcv_data |-> <<>>]
    /\ UNCHANGED <<api_setup, session, markets>>

\* lines 109-117: one iteration of the loop
fetch_recent_ohlcv_page ==
    /\ pc = "fetch_recent_ohlcv"
    /\ while_condition(frame.current_ts, frame.end_ts)
    /\ LET req_end == req_end_of(frame.current_ts, frame.ms, frame.end_ts)
           request(ret) ==
               Call("fetch_ohlcv", <<op.symbol, op.timeframe>>,
                    [params |-> [startTime |-> Str(frame.current_ts),
                                 endTime   |-> Str(req_end),
                                 limit     |-> bitget_fetch_limit]], ret)
       IN  \/ \E fetched \in Fetched(frame.current_ts, req_end) :
                 /\ calls' = Append(calls, request(fetched))
                 /\ frame' = [frame EXCEPT
                                !.ohlcv_data = @ \o fetched,
                                !.current_ts = next_current_ts(@, frame.ms)]
                 /\ UNCHANGED <<pc, outcome>>
           \/ \E err \in Errors :
                 /\ calls' = Append(calls, [request(None) EXCEPT !.raised = err])
                 /\ pc' = "done"
                 /\ outcome' = [kind |-> "raised", value |-> None, error |-> err]
                 /\ UNCHANGED frame
    /\ UNCHANGED <<api_setup, session, markets, op>>

\* lines 109, 119-123: the loop ends and the DataFrame is built
fetch_recent_ohlcv_return ==
    /\ pc = "fetch_recent_ohlcv"
    /\ ~while_condition(frame.current_ts, frame.end_ts)
    /\ pc' = "done"
    /\ outcome' = [kind |-> "returned", value |-> DataFrame(frame.ohlcv_data),
                   error |-> "none"]
    /\ UNCHANGED <<api_setup, session, markets, op, calls, frame>>

\* the caller has the result and may call the next method
caller_resumes ==
    /\ pc = "done"
    /\ pc' = "ready"
    /\ op' = NoOp
    /\ calls' = <<>>
    /\ outcome' = NoOutcome
    /\ frame' = NoFrame
    /\ UNCHANGED <<api_setup, session, markets>>

Next ==
    \/ call_fetch_ticker
    \/ call_fetch_min_amount_tradable
    \/ call_amount_to_precision
    \/ call_price_to_precision
    \/ call_fetch_balance
    \/ call_fetch_order
    \/ call_fetch_open_orders
    \/ call_fetch_open_trigger_orders
    \/ call_fetch_closed_trigger_orders
    \/ call_cancel_order
    \/ call_cancel_trigger_order
    \/ call_fetch_open_positions
    \/ call_flash_close_position
    \/ call_set_margin_mode
    \/ call_set_leverage
    \/ call_place_market_order
    \/ call_place_limit_order
    \/ call_place_trigger_market_order
    \/ call_place_trigger_limit_order
    \/ fetch_recent_ohlcv_enter
    \/ fetch_recent_ohlcv_page
    \/ fetch_recent_ohlcv_return
    \/ caller_resumes

Spec == Init /\ [][Next]_vars

-----------------------------------------------------------------------------
(* Properties. *)

Done(name) == pc = "done" /\ op.name = name

Raising == {i \in 1 .. Len(calls) : calls[i].raised # "none"}

CallsOf(fn) == {i \in 1 .. Len(calls) : calls[i].fn = fn}

CharDigit(c) ==
    CASE c = "0" -> 0 [] c = "1" -> 1 [] c = "2" -> 2 [] c = "3" -> 3
      [] c = "4" -> 4 [] c = "5" -> 5 [] c = "6" -> 6 [] c = "7" -> 7
      [] c = "8" -> 8 [] c = "9" -> 9

\* the number written by the characters i .. j of s
RECURSIVE NatOfDigits(_, _, _)
NatOfDigits(s, i, j) ==
    IF i > j THEN 0 ELSE 10 * NatOfDigits(s, i, j - 1) + CharDigit(s[j])

\* int(s) of a string of decimal digits
IntOfStr(s) ==
    IF Len(s) <= 6 THEN [hi |-> 0, lo |-> NatOfDigits(s, 1, Len(s))]
    ELSE [hi |-> NatOfDigits(s, 1, Len(s) - 6),
          lo |-> NatOfDigits(s, Len(s) - 5, Len(s))]

StartTime(i) == IntOfStr(calls[i].kw.params.startTime)

EndTime(i) == IntOfStr(calls[i].kw.params.endTime)

SupportedTimeframes == {"1m", "5m", "15m", "30m", "1h", "2h", "4h", "1d"}

TimeframeMs(tf) ==
    CASE tf = "1m" -> 60000 [] tf = "5m" -> 5 * 60000 [] tf = "15m" -> 15 * 60000
      [] tf = "30m" -> 30 * 60000 [] tf = "1h" -> 60 * 60000
      [] tf = "2h" -> 120 * 60000 [] tf = "4h" -> 240 * 60000
      [] tf = "1d" -> 1440 * 60000

InOhlcv == op.name = "fetch_recent_ohlcv"

TriggerPlacements == {"place_trigger_market_order", "place_trigger_limit_order"}

\* C1: a trigger order placement never ends with an error.  Whatever session
\* call raised (the market lookup, the amount or price formatting, or
\* create_order), the method returns None; the raising call is the last one
\* issued, so a failure before the submission leaves create_order uncalled.
C1_TriggerPlacementNeverRaises ==
    (pc = "done" /\ op.name \in TriggerPlacements) =>
        /\ outcome.kind = "returned"
        /\ outcome.error = "none"
        /\ \A i \in Raising :
              /\ outcome.value = None
              /\ i = Len(calls)
              /\ calls[i].fn # "create_order" => CallsOf("create_order") = {}

C1_Witness ==
    /\ Done("place_trigger_limit_order")
    /\ Len(calls) = 3
    /\ calls[3].fn = "price_to_precision"
    /\ calls[3].raised = "ExchangeError"
    /\ outcome.kind = "returned"
    /\ outcome.value = None

Propagating ==
    {"fetch_ticker", "amount_to_precision", "price_to_precision", "fetch_balance",
     "fetch_order", "fetch_open_orders", "fetch_open_trigger_orders",
     "fetch_closed_trigger_orders", "fetch_open_positions", "fetch_recent_ohlcv",
     "place_market_order", "place_limit_order", "cancel_order",
     "cancel_trigger_order", "flash_close_position", "set_margin_mode",
     "set_leverage"}

\* C2: in a read operation or a mutation other than a trigger placement, a
\* session call that raises ends the method with that same error: the method
\* raises it, returns nothing, and issues no further call.
C2_FailurePropagatesUnchanged ==
    (pc = "done" /\ op.name \in Propagating) =>
        \A i \in Raising :
           /\ outcome.kind = "raised"
           /\ outcome.error = calls[i].raised
           /\ outcome.value = None
           /\ i = Len(calls)

C2_Witness ==
    /\ Done("place_market_order")
    /\ Len(calls) = 3
    /\ calls[3].fn = "create_order"
    /\ calls[3].raised = "ExchangeError"
    /\ outcome.kind = "raised"
    /\ outcome.error = "ExchangeError"

PositiveContracts(pos) == "contracts" \in DOMAIN pos /\ pos.contracts > 0

LeverageCalls == SelectSeq(calls, LAMBDA c : c.fn = "set_leverage")

\* C4: set_leverage with margin mode "isolated" that runs to its end has
\* issued exactly two session set_leverage calls, holdSide long then holdSide
\* short; with margin mode "cross", exactly one, without params.  Every such
\* call carries the requested leverage and the market id of the requested
\* symbol, and a run cut short by an error has issued no other calls than
\* the first of these.
C4_LeverageCallsPerSide ==
    Done("set_leverage") =>
        LET lev == LeverageCalls
        IN  /\ \A i \in 1 .. Len(lev) :
                  lev[i].args = <<op.leverage, LoadedMarkets[op.symbol].id>>
            /\ op.margin_mode = "isolated" =>
                  /\ Len(lev) <= 2
                  /\ outcome.kind = "returned" => Len(lev) = 2
                  /\ \A i \in 1 .. Len(lev) :
                        lev[i].kw = [params |-> [holdSide |-> <<"long", "short">>[i]]]
            /\ op.margin_mode = "cross" =>
                  /\ Len(lev) <= 1
                  /\ outcome.kind = "returned" => Len(lev) = 1
                  /\ \A i \in 1 .. Len(lev) : lev[i].kw = <<>>

C4_Witness ==
    /\ Done("set_leverage")
    /\ op.margin_mode = "isolated"
    /\ op.leverage = 2
    /\ outcome.kind = "returned"
    /\ Len(LeverageCalls) = 2
    /\ LeverageCalls[2].kw.params.holdSide = "short"

Is500By1m == InOhlcv /\ op.timeframe = "1m" /\ op.limit = 500

\* C5 as stated: with limit 500 and timeframe "1m" there are exactly 3 page
\* requests, and each later request starts at the previous request's endTime
\* plus 200 * 60000 + 1 ms.
C5_AsStated ==
    (pc = "done" /\ Is500By1m /\ outcome.kind = "returned") =>
        /\ Len(calls) = 3
        /\ \A i \in 1 .. Len(calls) - 1 :
              StartTime(i + 1) = Add(EndTime(i), IntOf(200 * 60000 + 1))

\* C5 amended: with limit 500 and timeframe "1m" a run that returns has
\* issued exactly 3 page requests, and each later request starts at the
\* previous request's startTime plus 200 * 60000 + 1 ms, which is 1 ms after
\* the previous request's endTime.
C5_Amended ==
    (pc = "done" /\ Is500By1m) =>
        /\ Len(calls) <= 3
        /\ outcome.kind = "returned" => Len(calls) = 3
        /\ \A i \in 1 .. Len(calls) - 1 :
              /\ StartTime(i + 1) = Add(StartTime(i), IntOf(200 * 60000 + 1))
              /\ StartTime(i + 1) = Add(EndTime(i), IntOf(1))

C5_Witness ==
    /\ pc = "done"
    /\ Is500By1m
    /\ outcome.kind = "returned"
    /\ Len(calls) = 3
    /\ EndTime(3) = frame.end_ts
    /\ Less(EndTime(2), frame.end_ts)

\* C6: for a supported timeframe and 1 <= limit <= 200 there is exactly one
\* page request, with startTime = now - limit * timeframe_ms and
\* endTime = now.
C6_SinglePageWindow ==
    (pc = "done" /\ InOhlcv /\ op.timeframe \in SupportedTimeframes
       /\ op.limit >= 1 /\ op.limit <= 200) =>
        /\ Len(calls) = 1
        /\ calls[1].fn = "fetch_ohlcv"
        /\ calls[1].kw.params.endTime = Str(frame.end_ts)
        /\ calls[1].kw.params.startTime =
              Str(Sub(frame.end_ts, Mul(op.limit, IntOf(TimeframeMs(op.timeframe)))))

C6_Witness ==
    /\ pc = "done"
    /\ InOhlcv
    /\ op.timeframe = "1h"
    /\ op.limit = 3
    /\ outcome.kind = "returned"
    /\ Len(calls) = 1
    /\ frame.end_ts = [hi |-> 1762214, lo |-> 400000]
    /\ StartTime(1) = [hi |-> 1762203, lo |-> 600000]
    /\ EndTime(1) = frame.end_ts

\* C7: with a timeframe that is no key of ms_map, fetch_recent_ohlcv raises
\* KeyError without having issued any session call, whatever the limit.
C7_UnknownTimeframeFailsFast ==
    (InOhlcv /\ op.timeframe \notin SupportedTimeframes) =>
        /\ pc = "done"
        /\ outcome.kind = "raised"
        /\ outcome.error = "KeyError"
        /\ calls = <<>>

C7_Witness ==
    /\ pc = "done"
    /\ InOhlcv
    /\ op.timeframe = "3m"
    /\ op.limit = -1
    /\ outcome.kind = "raised"
    /\ calls = <<>>

\* C8: with a supported timeframe and limit <= 0 the loop body never runs:
\* no page request is issued, the loop condition is false on entry, and the
\* method returns an empty series.
C8_NonPositiveLimitIsEmpty ==
    (InOhlcv /\ op.timeframe \in SupportedTimeframes /\ op.limit <= 0) =>
        /\ calls = <<>>
        /\ pc = "fetch_recent_ohlcv" => ~Less(frame.current_ts, frame.end_ts)
        /\ pc = "done" =>
              /\ outcome.kind = "returned"
              /\ outcome.value.index = <<>>

C8_Witness ==
    /\ pc = "done"
    /\ InOhlcv
    /\ op.timeframe = "4h"
    /\ op.limit = 0
    /\ calls = <<>>
    /\ outcome.kind = "returned"
    /\ outcome.value.index = <<>>

HeaderAttached == "PAPTRADING" \in DOMAIN session.options.headers

Selects(env) == api_setup # None /\ Get(api_setup, "environment", "") = env

\* C9 as stated: api_setup carries a flag for the environment, and the
\* paper-trading header is attached when it selects paper trading and not
\* attached when it selects production.
C9_AsStated ==
    /\ Selects("paper") => HeaderAttached
    /\ Selects("production") => ~HeaderAttached

\* C9 amended: construction reads only apiKey, secret and password from
\* api_setup; the paper-trading header PAPTRADING: "1" is attached to the
\* session in every construction, also when api_setup asks for production.
C9_Amended ==
    /\ HeaderAttached
    /\ session.options.headers.PAPTRADING = "1"
    /\ session.options.defaultType = "swap"
    /\ \A k \in {"apiKey", "secret", "password"} :
          session[k] = IF api_setup # None /\ k \in DOMAIN api_setup
                       THEN api_setup[k] ELSE "None"

C9_Witness ==
    /\ Selects("production")
    /\ HeaderAttached
    /\ session.apiKey = "key"

\* C10: at every point of every run of fetch_recent_ohlcv the page requests
\* issued so far start at start_ts = now - limit * timeframe_ms, each starts
\* exactly 200 * timeframe_ms + 1 ms after the one before, each satisfies
\* start_ts <= startTime < end_ts and startTime <= endTime <= end_ts, and
\* the endTime of a request is below the startTime of every later one: no
\* two windows share a timestamp.
C10_WindowsDisjointAndIncreasing ==
    (InOhlcv /\ op.timeframe \in SupportedTimeframes) =>
        LET ms       == IntOf(TimeframeMs(op.timeframe))
            end_ts   == frame.end_ts
            start_ts == Sub(end_ts, Mul(op.limit, ms))
            step     == Add(Mul(200, ms), IntOf(1))
            n        == Len(calls)
            S        == [i \in 1 .. n |-> StartTime(i)]
            E        == [i \in 1 .. n |-> EndTime(i)]
        IN  /\ \A i \in 1 .. n :
                  /\ calls[i].fn = "fetch_ohlcv"
                  /\ LessEq(start_ts, S[i])
                  /\ Less(S[i], end_ts)
                  /\ LessEq(S[i], E[i])
                  /\ LessEq(E[i], end_ts)
            /\ n >= 1 => S[1] = start_ts
            /\ \A i \in 1 .. n - 1 :
                  /\ S[i + 1] = Add(S[i], step)
                  /\ Less(S[i], S[i + 1])
            /\ \A i \in 1 .. n : \A j \in (i + 1) .. n : Less(E[i], S[j])

C10_Witness ==
    /\ pc = "done"
    /\ InOhlcv
    /\ op.timeframe = "1d"
    /\ op.limit = 401
    /\ outcome.kind = "returned"
    /\ Len(calls) = 3
    /\ Less(EndTime(1), StartTime(2))
    /\ Less(EndTime(2), StartTime(3))

=============================================================================
